---- MODULE Spec2Model ----
(***************************************************************************)
(* Execution rules: storage (rules, execution log), schedule arithmetic,   *)
(* manual invocation route, and the dispatch / scheduling / step-running   *)
(* core that sits on top of them.                                          *)
(*                                                                         *)
(* Time is counted in units of 15 minutes: 1 = 15 min, 4 = 1 hour,         *)
(* 96 = 24 hours, 672 = 7 days.  A nullable column is the empty sequence   *)
(* (NULL) or a one-element sequence holding the value.                     *)
(***************************************************************************)
EXTENDS Integers, Sequences, FiniteSets, TLC

VARIABLES
    tz,     \* the process's local time zone (environment of new Date())
    now,    \* the wall clock, read by new Date() and by SQL NOW()
    rules,  \* rows of the ExecutionRule table: rule id -> row
    created, \* how many rule ids generateId has handed out
    log,    \* rows of the ExecutionLog table, in insertion order
    createArgs, \* history: the arguments of each executionLogStorage.create call
    runs,   \* the runs of the step runner, in the order they started
    workers, \* the scheduler ticks in flight: worker -> the due rules it read
    events, \* the trigger events taken in by the dispatcher, in order
    calls,  \* the incrementExecutionCount calls made directly, in the order issued
    artifacts, \* rows of the Artifact table: artifact id -> row
    entries, \* rows of the ArtifactEntry table, in insertion order
    ret     \* what the last operation returned to its caller

vars == <<tz, now, rules, created, log, createArgs, runs, workers, events, calls,
          artifacts, entries, ret>>

\* ------------------------------------------------------------------ bounds

\* the last instant of the clock, in units of 15 minutes
MaxTime == 120
\* the number of execution log entries written directly
MaxLog == 3
\* the number of rules created, and of runs and trigger events started
MaxRules == 2
MaxRuns == 2
MaxEvents == 1
\* the number of rules, and of requests made, in the specifications that
\* follow one rule
MaxInvokeRules == 1
MaxInvokeRuns == 1
\* the number of incrementExecutionCount calls made directly
MaxCalls == 3
\* the number of artifacts stored at once
MaxArtifacts == 2
\* the number of artifact entries stored at once
MaxEntries == 3

\* ------------------------------------------------------------------ values

NULL == <<>>
Some(v) == <<v>>
Val(x) == x[1]

NoReturn == [op |-> "none"]

RECURSIVE SeqSum(_)
SeqSum(s) == IF s = <<>> THEN 0 ELSE Head(s) + SeqSum(Tail(s))

\* all orders of the finite set S
Orders(S) ==
    {q \in [1..Cardinality(S) -> S] : \A i, j \in 1..Cardinality(S) : i # j => q[i] # q[j]}

\* ------------------------------------------------------------------ Date

\* A time zone, as far as the window 0..MaxTime sees it: one offset
\* transition at instant `at` (none for UTC).  Offsets are local - UTC.
ScheduleIntervals == {"15min", "hourly", "daily", "weekly"}

TimeZones ==
    { [name |-> "UTC",                 at |-> 0,  before |-> 0,  after |-> 0],
      [name |-> "DST ends (fall back)", at |-> 48, before |-> 4,  after |-> 0],
      [name |-> "DST starts (spring)",  at |-> 48, before |-> 0,  after |-> 4] }

\* ECMAScript LocalTime(t): t + LocalTZA(t, true)
LocalTime(t) == t + (IF t < tz.at THEN tz.before ELSE tz.after)

\* ECMAScript UTC(tlocal): the instant whose local time is tlocal; a local
\* time that repeats (offset decreases) or is skipped (offset increases) is
\* interpreted with the offset in force before the transition.
UTC(tlocal) ==
    LET early == tlocal - tz.before
        late  == tlocal - tz.after
    IN  IF early < tz.at THEN early
        ELSE IF late >= tz.at THEN late
        ELSE early

\* what the setMinutes / setHours / setDate call of each case adds to the
\* local time value of the date
LocalDelta(interval) ==
    CASE interval = "15min"  -> 1
      [] interval = "hourly" -> 4
      [] interval = "daily"  -> 96
      [] interval = "weekly" -> 672
      [] OTHER               -> 0

\* calculateNextRunTime(interval, fromDate?): the local-time fields of the
\* date are read, one of them is increased, and the date is rebuilt from the
\* local fields.
calculateNextRunTime(interval, fromDate) ==
    LET from == IF fromDate = NULL THEN now ELSE Val(fromDate)
    IN  UTC(LocalTime(from) + LocalDelta(interval))

\* ------------------------------------------------------------------ execution log

Users == {"u1", "u2"}
RuleIds == {"r1", "r2"}
Statuses == {"success", "failure", "partial"}

gcd(a, b) == CHOOSE g \in 1..(IF a > b THEN a ELSE b) :
                /\ a % g = 0 /\ b % g = 0
                /\ \A h \in (g+1)..(IF a > b THEN a ELSE b) : ~(a % h = 0 /\ b % h = 0)

\* a JavaScript number that is the quotient n / d of two non-negative
\* integers, kept exact and in lowest terms; 0/0 is NaN, n/0 is Infinity
Quotient(n, d) ==
    IF d = 0 THEN [num |-> IF n = 0 THEN 0 ELSE 1, den |-> 0]
    ELSE IF n = 0 THEN [num |-> 0, den |-> 1]
    ELSE [num |-> n \div gcd(n, d), den |-> d \div gcd(n, d)]

NaN == [num |-> 0, den |-> 0]
Number(n) == [num |-> n, den |-> 1]

\* Math.round(sum / n) for integers sum >= 0, n > 0: floor(x + 0.5)
MathRound(sum, n) == (2 * sum + n) \div (2 * n)

\* the row executionLogStorage.create inserts for its argument:
\* `x || null` stores NULL for every falsy x (undefined, 0, "")
LogRow(id, input) ==
    [id          |-> id,
     ruleId      |-> input.ruleId,
     ruleName    |-> input.ruleName,
     userId      |-> input.userId,
     triggerSlug |-> input.triggerSlug,
     status      |-> input.status,
     stepsJson   |-> input.stepsJson,
     outputText  |-> IF input.outputText \in {NULL, Some("")} THEN NULL ELSE input.outputText,
     errorText   |-> IF input.errorText \in {NULL, Some("")} THEN NULL ELSE input.errorText,
     durationMs  |-> IF input.durationMs \in {NULL, Some(0)} THEN NULL ELSE input.durationMs,
     createdAt   |-> now]

\* the aggregate row of the statistics query over `rows`: COUNT(*),
\* COUNT(*) FILTER (WHERE status = 'success'), AVG(durationMs); AVG skips
\* NULLs and is NULL when nothing is left.  AVG is kept as <<sum, count>>.
StatsQuery(rows) ==
    LET durations == SelectSeq(rows, LAMBDA r : r.durationMs # NULL)
    IN  [total_runs      |-> Len(rows),
         success_count   |-> Len(SelectSeq(rows, LAMBDA r : r.status = "success")),
         avg_duration_ms |-> IF durations = <<>> THEN NULL
                             ELSE Some(<<SeqSum([i \in 1..Len(durations) |->
                                                  Val(durations[i].durationMs)]),
                                         Len(durations)>>)]

\* faulty variant: the success rate computed without the totalRuns > 0 guard
getStats_unguarded(userId) ==
    LET row == StatsQuery(SelectSeq(log, LAMBDA r : r.userId = userId))
    IN  [totalRuns     |-> row.total_runs,
         successRate   |-> Quotient(row.success_count * 100, row.total_runs),
         avgDurationMs |-> IF row.avg_duration_ms # NULL
                           THEN MathRound(Val(row.avg_duration_ms)[1], Val(row.avg_duration_ms)[2])
                           ELSE 0]

\* executionLogStorage.getStats(userId)
getStats(userId) ==
    LET row == StatsQuery(SelectSeq(log, LAMBDA r : r.userId = userId))
        totalRuns == row.total_runs
        successCount == row.success_count
    IN  [totalRuns     |-> totalRuns,
         successRate   |-> IF totalRuns > 0 THEN Quotient(successCount * 100, totalRuns)
                           ELSE Number(0),
         avgDurationMs |-> IF row.avg_duration_ms # NULL
                           THEN MathRound(Val(row.avg_duration_ms)[1], Val(row.avg_duration_ms)[2])
                           ELSE 0]

\* executionLogStorage.getStatsByRuleId(ruleId)
getStatsByRuleId(ruleId) ==
    LET row == StatsQuery(SelectSeq(log, LAMBDA r : r.ruleId = ruleId))
        totalRuns == row.total_runs
        successCount == row.success_count
    IN  [totalRuns     |-> totalRuns,
         successRate   |-> IF totalRuns > 0 THEN Quotient(successCount * 100, totalRuns)
                           ELSE Number(0),
         avgDurationMs |-> IF row.avg_duration_ms # NULL
                           THEN MathRound(Val(row.avg_duration_ms)[1], Val(row.avg_duration_ms)[2])
                           ELSE 0]

\* executionLogStorage.getByRuleId(ruleId) with the default limit 50 and
\* offset 0, which take in the whole log here: the results the query may
\* give (ORDER BY createdAt DESC; rows of equal createdAt in any order)
getByRuleId(ruleId) ==
    LET ids == {i \in 1..Len(log) : log[i].ruleId = ruleId}
    IN  {[logs  |-> [k \in 1..Cardinality(ids) |-> log[q[k]]],
          total |-> Cardinality(ids)] : q \in
           {q \in Orders(ids) : \A i, j \in 1..Cardinality(ids) :
               i < j => log[q[i]].createdAt >= log[q[j]].createdAt}}

\* executionLogStorage.create(log): INSERT, then SELECT the row back
LogCreate(input) ==
    /\ Len(log) < MaxLog
    /\ log' = Append(log, LogRow(Len(log) + 1, input))
    /\ createArgs' = Append(createArgs, input)
    /\ ret' = [op |-> "executionLogStorage.create", entry |-> LogRow(Len(log) + 1, input)]
    /\ UNCHANGED <<tz, now, rules, created, runs, workers, events, calls, artifacts, entries>>

\* a caller asking for the statistics of a user
GetStats(userId) ==
    /\ ret' = [op |-> "getStats", scope |-> userId, stats |-> getStats(userId)]
    /\ UNCHANGED <<tz, now, rules, created, log, createArgs, runs, workers, events,
                   calls, artifacts, entries>>

\* a caller asking for the statistics of a rule
GetStatsByRuleId(ruleId) ==
    /\ ret' = [op |-> "getStatsByRuleId", scope |-> ruleId, stats |-> getStatsByRuleId(ruleId)]
    /\ UNCHANGED <<tz, now, rules, created, log, createArgs, runs, workers, events,
                   calls, artifacts, entries>>

\* ------------------------------------------------------------------ execution rules

Workers == {"w1", "w2"}
RuleIdOf == <<"r1", "r2", "r3">>
ActivationModes == {"trigger", "scheduled", "manual", "all"}

\* x ?? d
Default(x, d) == IF x = NULL THEN d ELSE Val(x)

\* the fields of an ExecutionRuleInput; an absent (undefined) field is NULL
InputFields ==
    {"name", "isActive", "priority", "acceptedTriggers", "executionSteps",
     "activationMode", "scheduleEnabled", "scheduleInterval"}

NoInput == [f \in InputFields |-> NULL]

\* executionRulesStorage.get(id)
get(id) == IF id \in DOMAIN rules THEN Some(rules[id]) ELSE NULL

\* faulty variant: the lookup by id alone
getByIdAndUser_anyUser(id, userId) ==
    IF id \in DOMAIN rules THEN Some(rules[id]) ELSE NULL

\* executionRulesStorage.getByIdAndUser(id, userId)
getByIdAndUser(id, userId) ==
    IF id \in DOMAIN rules /\ rules[id].userId = userId THEN Some(rules[id]) ELSE NULL

\* faulty variant: the active rules in ascending priority
getActiveByUserId_ascending(userId) ==
    LET ids == {id \in DOMAIN rules : rules[id].userId = userId /\ rules[id].isActive}
    IN  {[i \in 1..Cardinality(ids) |-> rules[q[i]]] : q \in
           {q \in Orders(ids) : \A i, j \in 1..Cardinality(ids) :
               i < j => rules[q[i]].priority <= rules[q[j]].priority}}

\* executionRulesStorage.getActiveByUserId(userId): the results the query
\* may give.  ORDER BY priority DESC fixes the order only between rows of
\* different priority; rows of equal priority come in any order.
getActiveByUserId(userId) ==
    LET ids == {id \in DOMAIN rules : rules[id].userId = userId /\ rules[id].isActive}
    IN  {[i \in 1..Cardinality(ids) |-> rules[q[i]]] : q \in
           {q \in Orders(ids) : \A i, j \in 1..Cardinality(ids) :
               i < j => rules[q[i]].priority >= rules[q[j]].priority}}

\* faulty variant: the query without its isActive condition
getScheduledRulesDue_inactiveToo ==
    LET ids == {id \in DOMAIN rules :
                   /\ rules[id].scheduleEnabled
                   /\ rules[id].scheduleNextRun # NULL
                   /\ Val(rules[id].scheduleNextRun) <= now
                   /\ rules[id].activationMode \in {"scheduled", "all"}}
    IN  {[i \in 1..Cardinality(ids) |-> rules[q[i]]] : q \in
           {q \in Orders(ids) : \A i, j \in 1..Cardinality(ids) :
               i < j => Val(rules[q[i]].scheduleNextRun) <= Val(rules[q[j]].scheduleNextRun)}}

\* executionRulesStorage.getScheduledRulesDue(): the results the query may
\* give (ORDER BY scheduleNextRun ASC; a NULL scheduleNextRun is never <= NOW())
getScheduledRulesDue ==
    LET ids == {id \in DOMAIN rules :
                   /\ rules[id].scheduleEnabled
                   /\ rules[id].scheduleNextRun # NULL
                   /\ Val(rules[id].scheduleNextRun) <= now
                   /\ rules[id].isActive
                   /\ rules[id].activationMode \in {"scheduled", "all"}}
    IN  {[i \in 1..Cardinality(ids) |-> rules[q[i]]] : q \in
           {q \in Orders(ids) : \A i, j \in 1..Cardinality(ids) :
               i < j => Val(rules[q[i]].scheduleNextRun) <= Val(rules[q[j]].scheduleNextRun)}}

\* the row executionRulesStorage.create inserts
RuleRow(id, userId, input) ==
    [id               |-> id,
     userId           |-> userId,
     name             |-> Val(input.name),
     isActive         |-> Default(input.isActive, TRUE),
     priority         |-> Default(input.priority, 0),
     acceptedTriggers |-> Default(input.acceptedTriggers, {}),
     executionSteps   |-> Val(input.executionSteps),
     executionCount   |-> 0,
     lastExecutedAt   |-> NULL,
     createdAt        |-> now,
     updatedAt        |-> now,
     activationMode   |-> Default(input.activationMode, "trigger"),
     scheduleEnabled  |-> Default(input.scheduleEnabled, FALSE),
     scheduleInterval |-> input.scheduleInterval,
     scheduleLastRun  |-> NULL,
     scheduleNextRun  |-> IF Default(input.scheduleEnabled, FALSE) /\ input.scheduleInterval # NULL
                          THEN Some(calculateNextRunTime(Val(input.scheduleInterval), NULL))
                          ELSE NULL]

\* executionRulesStorage.create(userId, input)
create(userId, input) ==
    /\ created < Len(RuleIdOf)
    /\ created < MaxRules
    /\ LET id == RuleIdOf[created + 1]
       IN  /\ rules' = [i \in DOMAIN rules \cup {id} |->
                          IF i = id THEN RuleRow(id, userId, input) ELSE rules[i]]
           /\ ret' = [op |-> "create", rule |-> RuleRow(id, userId, input)]
    /\ created' = created + 1
    /\ UNCHANGED <<tz, now, log, createArgs, runs, workers, events, calls, artifacts, entries>>

\* faulty variant: the update that writes the default priority when the
\* input carries none
UpdatedRow_resetsPriority(row, input) ==
    [row EXCEPT
       !.name             = Default(input.name, @),
       !.isActive         = Default(input.isActive, @),
       !.priority         = Default(input.priority, 0),
       !.acceptedTriggers = Default(input.acceptedTriggers, @),
       !.executionSteps   = Default(input.executionSteps, @),
       !.activationMode   = Default(input.activationMode, @),
       !.scheduleEnabled  = Default(input.scheduleEnabled, @),
       !.scheduleInterval = IF input.scheduleInterval # NULL THEN input.scheduleInterval ELSE @,
       !.scheduleNextRun  = IF input.scheduleInterval # NULL /\ input.scheduleEnabled # Some(FALSE)
                            THEN Some(calculateNextRunTime(Val(input.scheduleInterval), NULL))
                            ELSE @]

\* faulty variant: the update that has no SET clause for executionSteps
UpdatedRow_keepsSteps(row, input) ==
    [row EXCEPT
       !.name             = Default(input.name, @),
       !.isActive         = Default(input.isActive, @),
       !.priority         = Default(input.priority, @),
       !.acceptedTriggers = Default(input.acceptedTriggers, @),
       !.activationMode   = Default(input.activationMode, @),
       !.scheduleEnabled  = Default(input.scheduleEnabled, @),
       !.scheduleInterval = IF input.scheduleInterval # NULL THEN input.scheduleInterval ELSE @,
       !.scheduleNextRun  = IF input.scheduleInterval # NULL /\ input.scheduleEnabled # Some(FALSE)
                            THEN Some(calculateNextRunTime(Val(input.scheduleInterval), NULL))
                            ELSE @]

\* the row after executionRulesStorage.update's UPDATE: one SET clause per
\* field of the input that is not undefined
UpdatedRow(row, input) ==
    [row EXCEPT
       !.name             = Default(input.name, @),
       !.isActive         = Default(input.isActive, @),
       !.priority         = Default(input.priority, @),
       !.acceptedTriggers = Default(input.acceptedTriggers, @),
       !.executionSteps   = Default(input.executionSteps, @),
       !.activationMode   = Default(input.activationMode, @),
       !.scheduleEnabled  = Default(input.scheduleEnabled, @),
       !.scheduleInterval = IF input.scheduleInterval # NULL THEN input.scheduleInterval ELSE @,
       !.scheduleNextRun  = IF input.scheduleInterval # NULL /\ input.scheduleEnabled # Some(FALSE)
                            THEN Some(calculateNextRunTime(Val(input.scheduleInterval), NULL))
                            ELSE @]

\* executionRulesStorage.update(id, input)
update(id, input) ==
    /\ rules' = IF id \in DOMAIN rules
                THEN [rules EXCEPT ![id] = UpdatedRow(rules[id], input)]
                ELSE rules
    /\ ret' = [op |-> "update", rule |-> IF id \in DOMAIN rules
                                        THEN Some(UpdatedRow(rules[id], input)) ELSE NULL]
    /\ UNCHANGED <<tz, now, created, log, createArgs, runs, workers, events,
                   calls, artifacts, entries>>

\* executionRulesStorage.delete(id)
delete(id) ==
    /\ rules' = [i \in DOMAIN rules \ {id} |-> rules[i]]
    /\ ret' = [op |-> "delete", id |-> id, deleted |-> id \in DOMAIN rules]
    /\ UNCHANGED <<tz, now, created, log, createArgs, runs, workers, events,
                   calls, artifacts, entries>>

\* faulty variant: the counter set to one, not raised by one
incrementExecutionCount_once(id) ==
    IF id \in DOMAIN rules
    THEN [rules EXCEPT ![id].executionCount = 1, ![id].lastExecutedAt = Some(now)]
    ELSE rules

\* the table after executionRulesStorage.incrementExecutionCount(id)
incrementExecutionCount(id) ==
    IF id \in DOMAIN rules
    THEN [rules EXCEPT ![id].executionCount = @ + 1, ![id].lastExecutedAt = Some(now)]
    ELSE rules

\* the table after executionRulesStorage.updateScheduleRun(id, interval)
updateScheduleRun(id, interval) ==
    IF id \in DOMAIN rules
    THEN [rules EXCEPT ![id].scheduleLastRun = Some(now),
                       ![id].scheduleNextRun = Some(calculateNextRunTime(interval, NULL)),
                       ![id].executionCount  = @ + 1,
                       ![id].lastExecutedAt  = Some(now)]
    ELSE rules

\* a caller calls executionRulesStorage.incrementExecutionCount(id): the
\* query is sent; `overlap` counts the calls still waiting for theirs
IncrementCall(id) ==
    /\ Len(calls) < MaxCalls
    /\ calls' = Append(calls,
                   [id |-> id, state |-> "pending",
                    overlap |-> Cardinality({c \in 1..Len(calls) : calls[c].state = "pending"})])
    /\ ret' = [op |-> "incrementExecutionCount", call |-> Len(calls) + 1]
    /\ UNCHANGED <<tz, now, rules, created, log, createArgs, runs, workers, events,
                   artifacts, entries>>

\* the database executes the UPDATE of call c, one statement, and the call
\* returns
IncrementQuery(c) ==
    /\ c \in 1..Len(calls)
    /\ calls[c].state = "pending"
    /\ rules' = incrementExecutionCount(calls[c].id)
    /\ calls' = [calls EXCEPT ![c].state = "done"]
    /\ ret' = [op |-> "incrementExecutionCount returned", call |-> c]
    /\ UNCHANGED <<tz, now, created, log, createArgs, runs, workers, events,
                   artifacts, entries>>

\* time passes
AdvanceClock(d) ==
    /\ now + d <= MaxTime
    /\ now' = now + d
    /\ UNCHANGED <<tz, rules, created, log, createArgs, runs, workers, events, ret,
                   calls, artifacts, entries>>

\* ------------------------------------------------------------------ step runner

\* what the step executor does with one step: succeed with usable output,
\* succeed with nothing usable, report a failure, or throw
StepOutcomes == {"output", "empty", "fail", "throw"}

\* the stepRecords entry of step number `index` (from 0) for an outcome; an
\* error thrown by the executor is caught and recorded like a reported one
StepRecord(index, step, outcome) ==
    [stepIndex |-> index,
     type      |-> step.type,
     success   |-> outcome \in {"output", "empty"},
     result    |-> CASE outcome = "output" -> Some("out:" \o step.content)
                     [] outcome = "empty"  -> Some("")
                     [] OTHER              -> NULL,
     error     |-> CASE outcome = "fail"  -> Some("failed")
                     [] outcome = "throw" -> Some("thrown")
                     [] OTHER             -> NULL]

NoOrigin == [worker |-> NULL, window |-> NULL, interval |-> NULL, event |-> NULL]

\* a run at its start: the rule as the caller read it, its steps snapshotted
NewRun(rule, triggerSlug, origin) ==
    [ruleId      |-> rule.id,
     ruleName    |-> rule.name,
     userId      |-> rule.userId,
     triggerSlug |-> triggerSlug,
     steps       |-> rule.executionSteps,
     stepRecords |-> <<>>,
     expired     |-> FALSE,
     state       |-> "running",
     status      |-> NULL,
     logId       |-> NULL,
     startedAt   |-> now,
     origin      |-> origin]

HasFailed(run) ==
    run.stepRecords # <<>> /\ ~run.stepRecords[Len(run.stepRecords)].success

\* faulty variant: the loop that keeps going after a failed step
HasNextStep_continue(run) ==
    /\ run.state = "running"
    /\ Len(run.stepRecords) < Len(run.steps)

\* faulty variant: the loop that goes on after the deadline of the run
HasNextStep_pastDeadline(run) ==
    /\ run.state = "running"
    /\ ~HasFailed(run)
    /\ Len(run.stepRecords) < Len(run.steps)

\* whether the run has a next step to hand to the executor: the steps are
\* taken in snapshot order, none follows a failed one, and none is
\* dispatched once the deadline of the run has passed
HasNextStep(run) ==
    /\ run.state = "running"
    /\ ~run.expired
    /\ ~HasFailed(run)
    /\ Len(run.stepRecords) < Len(run.steps)

\* faulty variant: every run with a failed step is a failure
FinalStatus_noPartial(run) ==
    IF ~HasFailed(run) THEN "success" ELSE "failure"

\* the status of a run whose loop has ended
FinalStatus(run) ==
    IF run.expired THEN "failure"
    ELSE IF ~HasFailed(run) THEN "success"
    ELSE IF \E i \in 1..(Len(run.stepRecords) - 1) :
                run.stepRecords[i].success /\ run.stepRecords[i].result \notin {NULL, Some("")}
         THEN "partial"
         ELSE "failure"

\* faulty variant: an error thrown by the executor leaves the runner uncaught
ExecStep_uncaught(r, outcome) ==
    /\ r \in 1..Len(runs)
    /\ HasNextStep(runs[r])
    /\ LET index == Len(runs[r].stepRecords)
       IN  runs' = IF outcome = "throw"
                   THEN [runs EXCEPT ![r].state = "crashed"]
                   ELSE [runs EXCEPT ![r].stepRecords =
                           Append(@, StepRecord(index, runs[r].steps[index + 1], outcome))]
    /\ ret' = [op |-> "StepExecutor.execute", run |-> r, outcome |-> outcome]
    /\ UNCHANGED <<tz, now, rules, created, log, createArgs, workers, events,
                   calls, artifacts, entries>>

\* faulty variant: the runner that takes each step from the rule as stored
\* now, not from the snapshot of the run
ExecStep_live(r, outcome) ==
    /\ r \in 1..Len(runs)
    /\ HasNextStep(runs[r])
    /\ LET index == Len(runs[r].stepRecords)
           stored == IF runs[r].ruleId \in DOMAIN rules
                     THEN rules[runs[r].ruleId].executionSteps ELSE runs[r].steps
           step == IF index < Len(stored) THEN stored[index + 1] ELSE runs[r].steps[index + 1]
       IN  runs' = [runs EXCEPT ![r].stepRecords = Append(@, StepRecord(index, step, outcome))]
    /\ ret' = [op |-> "StepExecutor.execute", run |-> r, outcome |-> outcome]
    /\ UNCHANGED <<tz, now, rules, created, log, createArgs, workers, events,
                   calls, artifacts, entries>>

\* the step runner hands the next step of run r to the step executor
ExecStep(r, outcome) ==
    /\ r \in 1..Len(runs)
    /\ HasNextStep(runs[r])
    /\ LET index == Len(runs[r].stepRecords)
       IN  runs' = [runs EXCEPT ![r].stepRecords =
                       Append(@, StepRecord(index, runs[r].steps[index + 1], outcome))]
    /\ ret' = [op |-> "StepExecutor.execute", run |-> r, outcome |-> outcome]
    /\ UNCHANGED <<tz, now, rules, created, log, createArgs, workers, events,
                   calls, artifacts, entries>>

\* the overall deadline of run r passes while the run is under way
Expire(r) ==
    /\ r \in 1..Len(runs)
    /\ runs[r].state = "running"
    /\ ~runs[r].expired
    /\ runs' = [runs EXCEPT ![r].expired = TRUE]
    /\ ret' = [op |-> "deadline", run |-> r]
    /\ UNCHANGED <<tz, now, rules, created, log, createArgs, workers, events,
                   calls, artifacts, entries>>

\* the log entry recorded for a finished run
RunLogInput(run) ==
    [ruleId      |-> run.ruleId,
     ruleName    |-> run.ruleName,
     userId      |-> run.userId,
     triggerSlug |-> run.triggerSlug,
     status      |-> FinalStatus(run),
     stepsJson   |-> run.stepRecords,
     outputText  |-> IF FinalStatus(run) = "success" THEN Some("formatted") ELSE NULL,
     errorText   |-> IF run.expired THEN Some("timeout")
                     ELSE IF HasFailed(run) THEN run.stepRecords[Len(run.stepRecords)].error
                     ELSE NULL,
     durationMs  |-> Some((now - run.startedAt) * 900000)]

\* faulty variant: a scheduled run counted by the schedule update and by
\* the counter increment
FinishRun_countsTwice(r) ==
    /\ r \in 1..Len(runs)
    /\ runs[r].state = "running"
    /\ ~HasNextStep(runs[r])
    /\ Len(log) < MaxLog
    /\ LET run == runs[r]
           w == run.origin.worker
           counted == incrementExecutionCount(run.ruleId)
       IN  /\ log' = Append(log, LogRow(Len(log) + 1, RunLogInput(run)))
           /\ createArgs' = Append(createArgs, RunLogInput(run))
           /\ runs' = [runs EXCEPT ![r].state = "done",
                                   ![r].status = Some(FinalStatus(run)),
                                   ![r].logId = Some(Len(log) + 1)]
           /\ rules' = IF run.triggerSlug = "scheduled" /\ run.ruleId \in DOMAIN rules
                       THEN [counted EXCEPT
                               ![run.ruleId].scheduleLastRun = Some(now),
                               ![run.ruleId].scheduleNextRun =
                                   Some(calculateNextRunTime(Val(run.origin.interval), NULL)),
                               ![run.ruleId].executionCount = @ + 1]
                       ELSE counted
           /\ workers' = IF w = NULL THEN workers
                         ELSE [workers EXCEPT ![Val(w)] =
                                  IF Len(Val(@).due) > 1
                                  THEN Some([due |-> Tail(Val(@).due), busy |-> FALSE])
                                  ELSE NULL]
           /\ ret' = [op |-> "run", run |-> r, result |-> FinalStatus(run)]
    /\ UNCHANGED <<tz, now, created, events, calls, artifacts, entries>>

\* the loop of run r has ended: the result is built and recorded (log entry
\* first, then the rule's counters: updateScheduleRun for a scheduled run,
\* incrementExecutionCount otherwise), and the caller gets its answer
FinishRun(r) ==
    /\ r \in 1..Len(runs)
    /\ runs[r].state = "running"
    /\ ~HasNextStep(runs[r])
    /\ Len(log) < MaxLog
    /\ LET run == runs[r]
           w == run.origin.worker
       IN  /\ log' = Append(log, LogRow(Len(log) + 1, RunLogInput(run)))
           /\ createArgs' = Append(createArgs, RunLogInput(run))
           /\ runs' = [runs EXCEPT ![r].state = "done",
                                   ![r].status = Some(FinalStatus(run)),
                                   ![r].logId = Some(Len(log) + 1)]
           /\ rules' = IF run.triggerSlug = "scheduled"
                       THEN updateScheduleRun(run.ruleId, Val(run.origin.interval))
                       ELSE incrementExecutionCount(run.ruleId)
           /\ workers' = IF w = NULL THEN workers
                         ELSE [workers EXCEPT ![Val(w)] =
                                  IF Len(Val(@).due) > 1
                                  THEN Some([due |-> Tail(Val(@).due), busy |-> FALSE])
                                  ELSE NULL]
           /\ ret' = IF run.triggerSlug = "manual"
                     THEN [op |-> "POST /api/automations/invoke", session |-> Some(run.userId),
                           ruleId |-> Some(run.ruleId), status |-> 200, error |-> NULL,
                           result |-> [success |-> FinalStatus(run) = "success",
                                       ruleId |-> run.ruleId, ruleName |-> run.ruleName,
                                       executedAt |-> now]]
                     ELSE [op |-> "run", run |-> r, result |-> FinalStatus(run)]
    /\ UNCHANGED <<tz, now, created, events, calls, artifacts, entries>>

\* where executionLogStorage.create fails when the store is unavailable:
\* at its INSERT (no row is written) or at the SELECT that reads the row
\* back (the row is written, the caller still gets the error)
LogFailurePoints == {"insert", "select"}

\* the worker table once the tick of worker w is done with the rule it ran
WorkerDone(w) ==
    IF w = NULL THEN workers
    ELSE [workers EXCEPT ![Val(w)] =
             IF Len(Val(@).due) > 1
             THEN Some([due |-> Tail(Val(@).due), busy |-> FALSE])
             ELSE NULL]

\* faulty variant: the counter is raised before the log entry is written,
\* so a failed log write leaves the run counted
LogWriteFails_counted(r, point) ==
    /\ r \in 1..Len(runs)
    /\ runs[r].state = "running"
    /\ ~HasNextStep(runs[r])
    /\ point = "select" => Len(log) < MaxLog
    /\ LET run == runs[r]
       IN  /\ log' = IF point = "select"
                     THEN Append(log, LogRow(Len(log) + 1, RunLogInput(run))) ELSE log
           /\ createArgs' = IF point = "select"
                            THEN Append(createArgs, RunLogInput(run)) ELSE createArgs
           /\ runs' = [runs EXCEPT ![r].state = "storage_error"]
           /\ rules' = incrementExecutionCount(run.ruleId)
           /\ workers' = WorkerDone(run.origin.worker)
           /\ ret' = [op |-> "run", run |-> r, result |-> "StorageError"]
    /\ UNCHANGED <<tz, now, created, events, calls, artifacts, entries>>

\* the loop of run r has ended and the store fails while the log entry is
\* recorded: executionLogStorage.create throws, the error goes to the caller
\* of the run, and the rule's counters and schedule are not written
LogWriteFails(r, point) ==
    /\ r \in 1..Len(runs)
    /\ runs[r].state = "running"
    /\ ~HasNextStep(runs[r])
    /\ point = "select" => Len(log) < MaxLog
    /\ LET run == runs[r]
       IN  /\ log' = IF point = "select"
                     THEN Append(log, LogRow(Len(log) + 1, RunLogInput(run))) ELSE log
           /\ createArgs' = IF point = "select"
                            THEN Append(createArgs, RunLogInput(run)) ELSE createArgs
           /\ runs' = [runs EXCEPT ![r].state = "storage_error"]
           /\ workers' = WorkerDone(run.origin.worker)
           /\ ret' = IF run.triggerSlug = "manual"
                     THEN [op |-> "POST /api/automations/invoke", session |-> Some(run.userId),
                           ruleId |-> Some(run.ruleId), status |-> 500,
                           error |-> Some("Failed to invoke execution rule"), result |-> NULL]
                     ELSE [op |-> "run", run |-> r, result |-> "StorageError"]
    /\ UNCHANGED <<tz, now, rules, created, events, calls, artifacts, entries>>

\* ------------------------------------------------------------------ dispatcher

\* what the condition evaluator does with one candidate: report a match,
\* report no match, or fail
Verdicts == {"match", "nomatch", "error"}

\* whether the trigger path may select the rule for the trigger type
AcceptsTrigger(rule, triggerType) ==
    /\ rule.activationMode \in {"trigger", "all"}
    /\ triggerType \in rule.acceptedTriggers

\* Dispatcher.match(triggerType, userId): the candidate lists it may give,
\* the user's active rules as the store orders them, narrowed to those the
\* trigger path may select
match(userId, triggerType) ==
    {SelectSeq(active, LAMBDA rule : AcceptsTrigger(rule, triggerType)) :
        active \in getActiveByUserId(userId)}

\* a caller asks for the candidates of a trigger
Match(userId, triggerType) ==
    /\ \E result \in match(userId, triggerType) :
          ret' = [op |-> "match", userId |-> userId, triggerType |-> triggerType,
                  result |-> result]
    /\ UNCHANGED <<tz, now, rules, created, log, createArgs, runs, workers, events,
                   calls, artifacts, entries>>

\* a trigger event arrives: the dispatcher reads its candidates
Trigger(userId, triggerType) ==
    /\ Len(events) < MaxEvents
    /\ \E candidates \in match(userId, triggerType) :
          events' = Append(events, [userId |-> userId, triggerType |-> triggerType,
                                    candidates |-> candidates, verdicts |-> <<>>])
    /\ ret' = [op |-> "trigger", event |-> Len(events) + 1]
    /\ UNCHANGED <<tz, now, rules, created, log, createArgs, runs, workers,
                   calls, artifacts, entries>>

\* faulty variant: the dispatcher whose loop ends at an evaluator error
HasNextCandidate_stopOnError(event) ==
    /\ Len(event.verdicts) < Len(event.candidates)
    /\ \A i \in 1..Len(event.verdicts) : event.verdicts[i] = "nomatch"

\* faulty variant: the dispatcher that evaluates every candidate (fan-out)
HasNextCandidate_fanOut(event) ==
    Len(event.verdicts) < Len(event.candidates)

\* whether the dispatcher has a next candidate to evaluate for the event:
\* candidates are taken in order and none follows a match
HasNextCandidate(event) ==
    /\ Len(event.verdicts) < Len(event.candidates)
    /\ \A i \in 1..Len(event.verdicts) : event.verdicts[i] # "match"

\* the dispatcher evaluates the next candidate of event e; a match starts
\* the run of that candidate, an evaluator error counts as no match
Evaluate(e, verdict) ==
    /\ e \in 1..Len(events)
    /\ HasNextCandidate(events[e])
    /\ events' = [events EXCEPT ![e].verdicts = Append(@, verdict)]
    /\ IF verdict = "match"
       THEN /\ Len(runs) < MaxRuns
            /\ runs' = Append(runs,
                         NewRun(events[e].candidates[Len(events[e].verdicts) + 1],
                                events[e].triggerType, [NoOrigin EXCEPT !.event = Some(e)]))
       ELSE UNCHANGED runs
    /\ ret' = [op |-> "ConditionEvaluator.evaluate", event |-> e, verdict |-> verdict]
    /\ UNCHANGED <<tz, now, rules, created, log, createArgs, workers,
                   calls, artifacts, entries>>

\* ------------------------------------------------------------------ scheduler

\* a scheduler tick starts on worker w: it reads the rules that are due
TickRead(w) ==
    /\ workers[w] = NULL
    /\ \E due \in getScheduledRulesDue :
          /\ workers' = [workers EXCEPT ![w] =
                            IF due = <<>> THEN NULL ELSE Some([due |-> due, busy |-> FALSE])]
          /\ ret' = [op |-> "getScheduledRulesDue", worker |-> w, due |-> due]
    /\ UNCHANGED <<tz, now, rules, created, log, createArgs, runs, events,
                   calls, artifacts, entries>>

\* faulty variant: the tick advances the schedule of the rule when it
\* takes it, before the run and its log entry
TickRun_claimsFirst(w) ==
    /\ workers[w] # NULL
    /\ ~Val(workers[w]).busy
    /\ Len(runs) < MaxRuns
    /\ LET rule == Head(Val(workers[w]).due)
       IN  /\ runs' = Append(runs, NewRun(rule, "scheduled",
                               [NoOrigin EXCEPT !.worker = Some(w),
                                                !.window = rule.scheduleNextRun,
                                                !.interval = rule.scheduleInterval]))
           /\ rules' = IF rule.id \in DOMAIN rules
                       THEN [rules EXCEPT
                               ![rule.id].scheduleLastRun = Some(now),
                               ![rule.id].scheduleNextRun =
                                   Some(calculateNextRunTime(Val(rule.scheduleInterval), NULL))]
                       ELSE rules
    /\ workers' = [workers EXCEPT ![w] = Some([Val(@) EXCEPT !.busy = TRUE])]
    /\ ret' = [op |-> "tick", worker |-> w, run |-> Len(runs) + 1]
    /\ UNCHANGED <<tz, now, created, log, createArgs, events, calls, artifacts, entries>>

\* the tick on worker w turns to the next due rule it read and runs it, as
\* read; the schedule is advanced by updateScheduleRun when the run is over
TickRun(w) ==
    /\ workers[w] # NULL
    /\ ~Val(workers[w]).busy
    /\ Len(runs) < MaxRuns
    /\ LET rule == Head(Val(workers[w]).due)
       IN  runs' = Append(runs, NewRun(rule, "scheduled",
                            [NoOrigin EXCEPT !.worker = Some(w),
                                             !.window = rule.scheduleNextRun,
                                             !.interval = rule.scheduleInterval]))
    /\ workers' = [workers EXCEPT ![w] = Some([Val(@) EXCEPT !.busy = TRUE])]
    /\ ret' = [op |-> "tick", worker |-> w, run |-> Len(runs) + 1]
    /\ UNCHANGED <<tz, now, rules, created, log, createArgs, events, calls, artifacts, entries>>

\* ------------------------------------------------------------------ manual invocation

\* faulty variant: the route without the activation-mode check
InvokeError_noModeCheck(session, ruleId) ==
    IF session = NULL THEN Some([status |-> 401, error |-> "Unauthorized"])
    ELSE IF ruleId = NULL THEN Some([status |-> 400, error |-> "Rule ID is required"])
    ELSE LET rule == getByIdAndUser(Val(ruleId), Val(session))
         IN  IF rule = NULL THEN Some([status |-> 404, error |-> "Rule not found"])
             ELSE IF ~Val(rule).isActive
                  THEN Some([status |-> 400, error |-> "Rule is not active"])
             ELSE NULL

\* the checks of POST /api/automations/invoke before the rule is run: the
\* error response, or NULL when the request passes
InvokeError(session, ruleId) ==
    IF session = NULL THEN Some([status |-> 401, error |-> "Unauthorized"])
    ELSE IF ruleId = NULL THEN Some([status |-> 400, error |-> "Rule ID is required"])
    ELSE LET rule == getByIdAndUser(Val(ruleId), Val(session))
         IN  IF rule = NULL THEN Some([status |-> 404, error |-> "Rule not found"])
             ELSE IF ~Val(rule).isActive
                  THEN Some([status |-> 400, error |-> "Rule is not active"])
             ELSE IF Val(rule).activationMode # "manual" /\ Val(rule).activationMode # "all"
                  THEN Some([status |-> 400, error |-> "Rule does not support manual invocation"])
             ELSE NULL

\* POST /api/automations/invoke, up to the start of processManual; the
\* response of an accepted request is given when its run finishes
POST(session, ruleId) ==
    /\ IF InvokeError(session, ruleId) # NULL
       THEN /\ ret' = [op |-> "POST /api/automations/invoke", session |-> session,
                       ruleId |-> ruleId,
                       status |-> Val(InvokeError(session, ruleId)).status,
                       error |-> Some(Val(InvokeError(session, ruleId)).error),
                       result |-> NULL]
            /\ UNCHANGED runs
       ELSE /\ Len(runs) < MaxRuns
            /\ runs' = Append(runs, NewRun(Val(getByIdAndUser(Val(ruleId), Val(session))),
                                           "manual", NoOrigin))
            /\ ret' = [op |-> "processManual", run |-> Len(runs) + 1]
    /\ UNCHANGED <<tz, now, rules, created, log, createArgs, workers, events,
                   calls, artifacts, entries>>

\* ------------------------------------------------------------------ rule logs

\* GET /api/automations/[id]/logs
GETRuleLogs(session, id) ==
    /\ IF session = NULL
       THEN ret' = [op |-> "GET /api/automations/[id]/logs", session |-> session, id |-> id,
                    status |-> 401, error |-> Some("Unauthorized")]
       ELSE IF getByIdAndUser(id, Val(session)) = NULL
       THEN ret' = [op |-> "GET /api/automations/[id]/logs", session |-> session, id |-> id,
                    status |-> 404, error |-> Some("Rule not found")]
       ELSE \E found \in getByRuleId(id) :
               ret' = [op |-> "GET /api/automations/[id]/logs", session |-> session, id |-> id,
                       status |-> 200, error |-> NULL,
                       logs |-> found.logs, total |-> found.total,
                       stats |-> getStatsByRuleId(id)]
    /\ UNCHANGED <<tz, now, rules, created, log, createArgs, runs, workers, events,
                   calls, artifacts, entries>>

\* ------------------------------------------------------------------ artifacts

\* generateId: an id no stored row has (the smallest free number stands for
\* the fresh random string)
FreeId(used, max) == CHOOSE i \in 1..max : i \notin used /\ \A j \in 1..(i - 1) : j \in used

EntryIds == {entries[k].id : k \in 1..Len(entries)}

\* the entry table after the INSERT of artifactService.addEntry: the new row
\* is stamped with the time of the insert
InsertEntry(table, id, artifactId, params) ==
    Append(table, [id           |-> id,
                   artifactId   |-> artifactId,
                   workflowName |-> params.workflowName,
                   content      |-> params.content,
                   source       |-> IF params.source = NULL THEN "workflow_output"
                                    ELSE Val(params.source),
                   createdAt    |-> now])

\* artifactService.create(params): the artifact row, then its first entry
\* if one is given; returns the stored artifact
artifactService_create(params) ==
    /\ Cardinality(DOMAIN artifacts) < MaxArtifacts
    /\ params.firstEntry # NULL => Len(entries) < MaxEntries
    /\ LET id  == FreeId(DOMAIN artifacts, MaxArtifacts)
           row == [id |-> id, userId |-> params.userId, title |-> params.title,
                   summary |-> params.summary, tags |-> <<>>,
                   createdAt |-> now, updatedAt |-> now]
       IN  /\ artifacts' = [i \in DOMAIN artifacts \cup {id} |->
                               IF i = id THEN row ELSE artifacts[i]]
           /\ entries' = IF params.firstEntry = NULL THEN entries
                         ELSE InsertEntry(entries, FreeId(EntryIds, MaxEntries), id,
                                          Val(params.firstEntry))
           /\ ret' = [op |-> "artifactService.create", result |-> Some(row)]
    /\ UNCHANGED <<tz, now, rules, created, log, createArgs, runs, workers, events, calls>>

\* artifactService.addEntry(artifactId, params) for a stored artifact: the
\* entry row is inserted, the artifact's updatedAt is set, and the row is
\* read back and returned
addEntry(artifactId, params) ==
    /\ artifactId \in DOMAIN artifacts
    /\ Len(entries) < MaxEntries
    /\ entries' = InsertEntry(entries, FreeId(EntryIds, MaxEntries), artifactId, params)
    /\ artifacts' = [artifacts EXCEPT ![artifactId].updatedAt = now]
    /\ ret' = [op |-> "artifactService.addEntry", result |-> Some(entries'[Len(entries')])]
    /\ UNCHANGED <<tz, now, rules, created, log, createArgs, runs, workers, events, calls>>

\* artifactService.deleteEntry(entryId)
deleteEntry(entryId) ==
    /\ entries' = SelectSeq(entries, LAMBDA e : e.id # entryId)
    /\ ret' = [op |-> "artifactService.deleteEntry", result |-> entryId \in EntryIds]
    /\ UNCHANGED <<tz, now, rules, created, log, createArgs, runs, workers, events, calls,
                   artifacts>>

\* artifactService.delete(id): the entries of the artifact, then its row
artifactService_delete(id) ==
    /\ entries' = SelectSeq(entries, LAMBDA e : e.artifactId # id)
    /\ artifacts' = [i \in DOMAIN artifacts \ {id} |-> artifacts[i]]
    /\ ret' = [op |-> "artifactService.delete", result |-> id \in DOMAIN artifacts]
    /\ UNCHANGED <<tz, now, rules, created, log, createArgs, runs, workers, events, calls>>

\* the entry lists the query of getWithEntries may give for an artifact:
\* its rows ORDER BY createdAt DESC, rows of equal createdAt in any order
EntriesNewestFirst(id) ==
    LET ks == {k \in 1..Len(entries) : entries[k].artifactId = id}
    IN  {[n \in 1..Cardinality(ks) |-> entries[q[n]]] : q \in
           {q \in Orders(ks) : \A i, j \in 1..Cardinality(ks) :
               i < j => entries[q[i]].createdAt >= entries[q[j]].createdAt}}

\* artifactService.getWithEntries(id): undefined when no such artifact,
\* else the artifact with its entries
getWithEntries(id) ==
    /\ IF id \notin DOMAIN artifacts
       THEN ret' = [op |-> "artifactService.getWithEntries", id |-> id, result |-> NULL]
       ELSE \E found \in EntriesNewestFirst(id) :
               ret' = [op |-> "artifactService.getWithEntries", id |-> id,
                       result |-> Some([artifact |-> artifacts[id], entries |-> found])]
    /\ UNCHANGED <<tz, now, rules, created, log, createArgs, runs, workers, events, calls,
                   artifacts, entries>>

\* String.prototype.trim on the contents used here
Trim(content) ==
    CASE content = " edited " -> "edited"
      [] content = "  "       -> ""
      [] OTHER                -> content

\* artifactService.updateEntry(entryId, content): the entry table after
\* the UPDATE ... WHERE id = entryId
updateEntry(entryId, content) ==
    [k \in 1..Len(entries) |->
        IF entries[k].id = entryId THEN [entries[k] EXCEPT !.content = content]
        ELSE entries[k]]

\* PATCH /api/artifacts/[id]/entries/[entryId] with body {content}
PATCHEntry(session, id, entryId, content) ==
    LET answer(status, error) ==
            [op |-> "PATCH /api/artifacts/[id]/entries/[entryId]", session |-> session,
             id |-> id, entryId |-> entryId, status |-> status, error |-> error]
    IN  /\ IF session = NULL
           THEN ret' = answer(401, Some("Unauthorized")) /\ UNCHANGED entries
           ELSE IF id \notin DOMAIN artifacts
           THEN ret' = answer(404, Some("Artifact not found")) /\ UNCHANGED entries
           ELSE IF artifacts[id].userId # Val(session)
           THEN ret' = answer(403, Some("Forbidden")) /\ UNCHANGED entries
           ELSE IF content = NULL \/ content = Some("")
           THEN ret' = answer(400, Some("Content is required")) /\ UNCHANGED entries
           ELSE IF entryId \notin EntryIds
           THEN ret' = answer(500, Some("Failed to update entry")) /\ UNCHANGED entries
           ELSE /\ entries' = updateEntry(entryId, Trim(Val(content)))
                /\ ret' = answer(200, NULL)
        /\ UNCHANGED <<tz, now, rules, created, log, createArgs, runs, workers, events,
                       calls, artifacts>>

\* ------------------------------------------------------------------ idle parts

LogIdle == log = <<>> /\ createArgs = <<>>
RulesIdle == rules = <<>> /\ created = 0
CoreIdle == runs = <<>> /\ workers = [w \in Workers |-> NULL] /\ events = <<>>
CallsIdle == calls = <<>>
ArtifactsIdle == artifacts = <<>> /\ entries = <<>>

\* ------------------------------------------------------------------
\* Specification of calculateNextRunTime as a pure function of the instant,
\* the interval and the time zone of the process.

InitNextRun ==
    /\ tz \in TimeZones
    /\ now \in 0..MaxTime
    /\ LogIdle /\ RulesIdle /\ CoreIdle /\ CallsIdle /\ ArtifactsIdle
    /\ ret = NoReturn

CalcNextRun(interval) ==
    /\ ret' = [op |-> "calculateNextRunTime", interval |-> interval,
               from |-> now, value |-> calculateNextRunTime(interval, NULL)]
    /\ UNCHANGED <<tz, now, rules, created, log, createArgs, runs, workers, events,
                   calls, artifacts, entries>>

NextNextRun == \E interval \in ScheduleIntervals : CalcNextRun(interval)

SpecNextRun == InitNextRun /\ [][NextNextRun]_vars

\* C9: for every supported interval and every time t, nextRun(interval, t)
\* is strictly later than t, and nextRun(daily, t) is exactly t + 24 hours
\* (96 units of 15 minutes).
C9_NextRunLaterAndDailyExact ==
    ret.op = "calculateNextRunTime" =>
        /\ ret.value > ret.from
        /\ ret.interval = "daily" => ret.value = ret.from + 96

\* ------------------------------------------------------------------
\* Specification of the execution log and its statistics: entries are
\* created with any status and duration for rules of user u1; statistics
\* are asked per user and per rule.

StatsDurations == {0, 100, 200, 300}

StatsInputs ==
    [ruleId : RuleIds, ruleName : {"Digest"}, userId : {"u1"},
     triggerSlug : {"manual"}, status : Statuses, stepsJson : {<<>>},
     outputText : {NULL}, errorText : {NULL},
     durationMs : {Some(d) : d \in StatsDurations}]

InitStats ==
    /\ tz \in {z \in TimeZones : z.name = "UTC"}
    /\ now = 0
    /\ LogIdle /\ RulesIdle /\ CoreIdle /\ CallsIdle /\ ArtifactsIdle
    /\ ret = NoReturn

NextStats ==
    \/ \E input \in StatsInputs : LogCreate(input)
    \/ \E u \in Users : GetStats(u)
    \/ \E r \in RuleIds : GetStatsByRuleId(r)

SpecStats == InitStats /\ [][NextStats]_vars

\* the entries the last statistics call had in scope, as they were handed
\* to create
ScopeArgs ==
    IF ret.op = "getStats"
    THEN SelectSeq(createArgs, LAMBDA a : a.userId = ret.scope)
    ELSE SelectSeq(createArgs, LAMBDA a : a.ruleId = ret.scope)

IsStatsCall == ret.op \in {"getStats", "getStatsByRuleId"}

\* C7: statistics (per user and per rule) over a scope with no log entries
\* are exactly {totalRuns: 0, successRate: 0, avgDurationMs: 0}; the rate is
\* never NaN.
C7_EmptyStatsAreZero ==
    (IsStatsCall /\ ScopeArgs = <<>>) =>
        /\ ret.stats = [totalRuns |-> 0, successRate |-> Number(0), avgDurationMs |-> 0]
        /\ ret.stats.successRate # NaN

\* C7 witness: statistics were asked for a scope without entries while the
\* log holds entries of another scope
C7_Witness ==
    /\ IsStatsCall /\ ScopeArgs = <<>> /\ log # <<>>
    /\ ret.stats.totalRuns = 0

\* C8: over a non-empty history, totalRuns is the number of entries,
\* successRate is 100 * successes / totalRuns, and avgDurationMs is the mean
\* (rounded to a whole millisecond) of the durations of all entries in
\* scope, entries of duration 0 included.
C8_StatsOverAllEntries ==
    (IsStatsCall /\ ScopeArgs # <<>>) =>
        LET n == Len(ScopeArgs)
            succ == Len(SelectSeq(ScopeArgs, LAMBDA a : a.status = "success"))
            total == SeqSum([i \in 1..n |-> Val(ScopeArgs[i].durationMs)])
        IN  /\ ret.stats.totalRuns = n
            /\ ret.stats.successRate = Quotient(100 * succ, n)
            /\ ret.stats.avgDurationMs = MathRound(total, n)

\* ------------------------------------------------------------------
\* Specification of the step runner: rules of user u1 that allow manual
\* invocation are created, active or not, with step lists of every length
\* up to three, are invoked, and their runs proceed step by step with any executor outcome.

StepA == [type |-> "instruction", content |-> "A"]
StepB == [type |-> "tool-call", content |-> "B"]
StepC == [type |-> "instruction", content |-> "C"]

RunInputs ==
    {[NoInput EXCEPT !.name = Some("Digest"), !.activationMode = Some("manual"),
                     !.executionSteps = Some(steps), !.isActive = active] :
        steps \in {<<>>, <<StepA>>, <<StepA, StepB>>, <<StepA, StepB, StepC>>},
        active \in {NULL, Some(FALSE)}}

InitRun ==
    /\ tz \in {z \in TimeZones : z.name = "UTC"}
    /\ now = 0
    /\ LogIdle /\ RulesIdle /\ CoreIdle /\ CallsIdle /\ ArtifactsIdle
    /\ ret = NoReturn

NextRun ==
    \/ \E input \in RunInputs : created < MaxInvokeRules /\ create("u1", input)
    \/ \E session \in {NULL, Some("u1")}, id \in DOMAIN rules :
          Len(runs) < MaxInvokeRuns /\ POST(session, Some(id))
    \/ \E r \in 1..MaxRuns, outcome \in StepOutcomes : ExecStep(r, outcome)
    \/ \E r \in 1..MaxRuns : FinishRun(r)

SpecRun == InitRun /\ [][NextRun]_vars

\* the step runner's own steps are taken whenever they stay possible: an
\* awaited executor call returns, and the continuation of a run is scheduled
FairSpecRun ==
    /\ SpecRun
    /\ \A r \in 1..MaxRuns :
          /\ WF_vars(\E outcome \in StepOutcomes : ExecStep(r, outcome))
          /\ WF_vars(FinishRun(r))

FinishedRuns == {r \in 1..Len(runs) : runs[r].state = "done"}

\* the step records of a run are those of the first steps of its snapshot,
\* in order, each with its own index and kind
RecordsFollowSnapshot(run) ==
    /\ Len(run.stepRecords) <= Len(run.steps)
    /\ \A i \in 1..Len(run.stepRecords) :
          /\ run.stepRecords[i].stepIndex = i - 1
          /\ run.stepRecords[i].type = run.steps[i].type

\* the position (from 1) of the first failed record of a run, 0 if none
FirstFailure(run) ==
    IF \E i \in 1..Len(run.stepRecords) : ~run.stepRecords[i].success
    THEN CHOOSE i \in 1..Len(run.stepRecords) :
            /\ ~run.stepRecords[i].success
            /\ \A j \in 1..(i - 1) : run.stepRecords[j].success
    ELSE 0

C5_RunTerminates ==
    /\ [](\A r \in FinishedRuns :
             /\ runs[r].status \in {Some(st) : st \in Statuses}
             /\ Len(runs[r].stepRecords) <= Len(runs[r].steps))
    /\ [](\A r \in 1..Len(runs) :
             (ret.op = "StepExecutor.execute" /\ ret.run = r
              /\ ret.outcome \in {"fail", "throw"}) =>
                 /\ runs[r].stepRecords # <<>>
                 /\ ~runs[r].stepRecords[Len(runs[r].stepRecords)].success
                 /\ runs[r].stepRecords[Len(runs[r].stepRecords)].error # NULL)
    /\ \A r \in 1..MaxRuns : (r <= Len(runs)) ~> (r \in FinishedRuns)

\* C5 witness: a run ended although its executor threw
C5_Witness ==
    \E r \in FinishedRuns :
        /\ runs[r].stepRecords # <<>>
        /\ runs[r].stepRecords[Len(runs[r].stepRecords)].error = Some("thrown")
        /\ runs[r].status \in {Some(st) : st \in Statuses}

\* whether a step record is a success that produced usable output
ProducedOutput(record) ==
    record.success /\ record.result \notin {NULL, Some("")}

\* C20: a finished run with a failed step has status failure when no step
\* before the failed one succeeded with output and partial when one did;
\* and a finished run has status success exactly when every step of its
\* snapshot has a record and every record is a success.
C20_StatusFollowsStepOutcomes ==
    \A r \in FinishedRuns :
        LET recs == runs[r].stepRecords
            i    == FirstFailure(runs[r])
        IN  /\ i # 0 =>
                  runs[r].status =
                     IF \E j \in 1..(i - 1) : ProducedOutput(recs[j])
                     THEN Some("partial") ELSE Some("failure")
            /\ runs[r].status = Some("success") <=>
                  /\ Len(recs) = Len(runs[r].steps)
                  /\ \A j \in 1..Len(recs) : recs[j].success

\* C20 witness: a finished run whose third step failed after a first step
\* without usable output and a second step with output, so the status is
\* partial on account of the second step alone
C20_Witness ==
    \E r \in FinishedRuns :
        /\ FirstFailure(runs[r]) = 3
        /\ ~ProducedOutput(runs[r].stepRecords[1])
        /\ ProducedOutput(runs[r].stepRecords[2])
        /\ runs[r].status = Some("partial")

\* ------------------------------------------------------------------
\* Specification of manual invocation: rules of both users are created
\* with every activation mode, active or not; any user (or nobody) asks to
\* invoke any rule id; accepted invocations run.

ManualInputs ==
    {[NoInput EXCEPT !.name = Some("Digest"), !.executionSteps = Some(<<StepA>>),
                     !.isActive = active, !.activationMode = mode] :
        active \in {NULL, Some(FALSE)},
        mode \in {NULL} \cup {Some(m) : m \in ActivationModes}}

NextManual ==
    \/ \E u \in Users, input \in ManualInputs : created < MaxInvokeRules /\ create(u, input)
    \/ \E session \in {NULL} \cup {Some(u) : u \in Users},
          ruleId \in {NULL} \cup {Some(RuleIdOf[i]) : i \in 1..Len(RuleIdOf)} :
          Len(runs) < MaxInvokeRuns /\ POST(session, ruleId)
    \/ \E r \in 1..MaxRuns, outcome \in StepOutcomes : ExecStep(r, outcome)
    \/ \E r \in 1..MaxRuns : FinishRun(r)

SpecManual == InitRun /\ [][NextManual]_vars

\* C3: a manual invocation, by its owner, of a rule that is inactive or
\* whose activation mode is neither manual nor all is answered with an error
\* ("Rule does not support manual invocation" when the rule is active) and
\* changes nothing: no run starts, no log entry is written, and the rule
\* (executionCount and lastExecutedAt included) stays as it is.
C3_RejectedInvocationHasNoEffect ==
    [][\A u \in Users : \A id \in DOMAIN rules :
          ( /\ POST(Some(u), Some(id))
            /\ rules[id].userId = u
            /\ ~rules[id].isActive \/ rules[id].activationMode \notin {"manual", "all"} )
          => /\ ret'.op = "POST /api/automations/invoke"
             /\ ret'.status = 400
             /\ rules[id].isActive =>
                   ret'.error = Some("Rule does not support manual invocation")
             /\ runs' = runs /\ log' = log /\ rules' = rules]_vars

\* C3 witness: the owner's invocation of an active trigger-mode rule was
\* refused
C3_Witness ==
    /\ ret.op = "POST /api/automations/invoke"
    /\ ret.error = Some("Rule does not support manual invocation")
    /\ Val(ret.ruleId) \in DOMAIN rules
    /\ rules[Val(ret.ruleId)].userId = Val(ret.session)
    /\ rules[Val(ret.ruleId)].isActive
    /\ rules[Val(ret.ruleId)].activationMode = "trigger"

\* the rule ids no stored rule has
MissingRuleIds == {RuleIdOf[i] : i \in 1..Len(RuleIdOf)} \ DOMAIN rules

\* C29: a manual invocation of a rule owned by another user starts no run
\* and writes nothing (rules, log and runs stay as they are), and its
\* response, 404 "Rule not found", is the response the same user gets for a
\* rule id that does not exist, whatever the mode and the active flag of the
\* other user's rule.
C29_ForeignRuleLooksMissing ==
    [][\A u \in Users : \A id \in DOMAIN rules :
          (POST(Some(u), Some(id)) /\ rules[id].userId # u)
          => /\ ret'.op = "POST /api/automations/invoke"
             /\ ret'.status = 404
             /\ ret'.error = Some("Rule not found")
             /\ ret'.result = NULL
             /\ runs' = runs /\ log' = log /\ rules' = rules
             /\ createArgs' = createArgs /\ workers' = workers
             /\ \A missing \in MissingRuleIds :
                   /\ InvokeError(Some(u), Some(missing)) # NULL
                   /\ Val(InvokeError(Some(u), Some(missing))).status = ret'.status
                   /\ Some(Val(InvokeError(Some(u), Some(missing))).error) = ret'.error]_vars

\* C29 witness: a user's invocation of another user's active manual-mode
\* rule was answered "Rule not found" and no run exists
C29_Witness ==
    /\ ret.op = "POST /api/automations/invoke"
    /\ ret.session # NULL /\ ret.ruleId # NULL
    /\ ret.status = 404
    /\ Val(ret.ruleId) \in DOMAIN rules
    /\ rules[Val(ret.ruleId)].userId # Val(ret.session)
    /\ rules[Val(ret.ruleId)].isActive
    /\ rules[Val(ret.ruleId)].activationMode = "manual"
    /\ runs = <<>>

\* ------------------------------------------------------------------
\* Specification of trigger dispatch: rules of user u1 are created with
\* priority 5 or 10, some inactive, some of another mode, some listening to
\* another trigger, next to a rule of user u2; "gmail_new_email" events
\* arrive for either user and are dispatched; runs proceed.

DispatchInputs ==
    {[NoInput EXCEPT !.name = Some("Digest"), !.executionSteps = Some(<<StepA>>),
                     !.priority = Some(k[1]), !.isActive = k[2], !.activationMode = k[3],
                     !.acceptedTriggers = k[4]] :
        k \in {<<5, NULL, NULL, Some({"gmail_new_email"})>>,
               <<10, NULL, Some("all"), Some({"gmail_new_email"})>>,
               <<10, Some(FALSE), Some("trigger"), Some({"gmail_new_email"})>>,
               <<10, NULL, Some("manual"), Some({"gmail_new_email"})>>,
               <<10, NULL, Some("all"), Some({"slack_message"})>>}}

OtherUserInputs ==
    {input \in DispatchInputs : input.priority = Some(5)}

NextDispatch ==
    \/ \E input \in DispatchInputs : create("u1", input)
    \/ \E input \in OtherUserInputs : create("u2", input)
    \/ \E u \in Users : Trigger(u, "gmail_new_email")
    \/ \E e \in 1..MaxEvents, verdict \in Verdicts : Evaluate(e, verdict)
    \/ \E r \in 1..MaxRuns, outcome \in {"output", "fail"} : ExecStep(r, outcome)
    \/ \E r \in 1..MaxRuns : FinishRun(r)

SpecDispatch == InitRun /\ [][NextDispatch]_vars

RunsOfEvent(e) == {r \in 1..Len(runs) : runs[r].origin.event = Some(e)}

LogOfEvent(e) == {runs[r].logId : r \in {q \in RunsOfEvent(e) : runs[q].logId # NULL}}

\* C2: dispatch is first-match-wins.  For each trigger event the candidates
\* are evaluated in order up to the first match; at most one run starts per
\* event, it is the run of the first matching candidate, at most one log
\* entry is written for the event, and it is that rule's; when the first
\* candidate evaluated matches (as when all match), the rule that runs has
\* the highest priority among the candidates.
C2_FirstMatchWins ==
    \A e \in 1..Len(events) :
        LET ev == events[e]
            hits == {i \in 1..Len(ev.verdicts) : ev.verdicts[i] = "match"}
        IN  /\ Cardinality(hits) <= 1
            /\ hits # {} => Len(ev.verdicts) \in hits
            /\ Cardinality(RunsOfEvent(e)) = Cardinality(hits)
            /\ Cardinality(LogOfEvent(e)) <= 1
            /\ \A r \in RunsOfEvent(e) :
                  /\ runs[r].ruleId = ev.candidates[Len(ev.verdicts)].id
                  /\ runs[r].triggerSlug = ev.triggerType
                  /\ r \in FinishedRuns =>
                        /\ Cardinality(LogOfEvent(e)) = 1
                        /\ log[Val(runs[r].logId)].ruleId = runs[r].ruleId
                  /\ ev.verdicts[1] = "match" =>
                        \A i \in 1..Len(ev.candidates) :
                            ev.candidates[i].priority
                                <= ev.candidates[Len(ev.verdicts)].priority

\* C2 witness: two rules of priorities 10 and 5 were candidates of one
\* event, the first evaluated matched, and one log entry was written, for
\* the priority-10 rule
C2_Witness ==
    \E e \in 1..Len(events) :
        /\ Len(events[e].candidates) = 2
        /\ {events[e].candidates[i].priority : i \in 1..2} = {5, 10}
        /\ events[e].verdicts = <<"match">>
        /\ \E r \in RunsOfEvent(e) \cap FinishedRuns :
              /\ Len(log) = 1
              /\ log[1].ruleId = runs[r].ruleId
              /\ rules[runs[r].ruleId].priority = 10

\* Specification of dispatch with a failing evaluator: rules of user u1
\* open to the trigger path are created with priority 5 or 10, trigger
\* events arrive, the evaluator answers with any verdict, and runs proceed.

ErrorInputs ==
    {input \in DispatchInputs :
        /\ input.isActive = NULL
        /\ input.activationMode \in {NULL, Some("all")}
        /\ input.acceptedTriggers = Some({"gmail_new_email"})}

NextErrors ==
    \/ \E input \in ErrorInputs : create("u1", input)
    \/ Trigger("u1", "gmail_new_email")
    \/ \E e \in 1..MaxEvents, verdict \in Verdicts : Evaluate(e, verdict)
    \/ \E r \in 1..MaxRuns : ExecStep(r, "output")
    \/ \E r \in 1..MaxRuns : FinishRun(r)

SpecErrors == InitRun /\ [][NextErrors]_vars

\* the dispatcher's own steps are taken whenever they stay possible: an
\* awaited evaluator call returns, with whatever verdict
FairSpecErrors ==
    /\ SpecErrors
    /\ \A e \in 1..MaxEvents : WF_vars(\E verdict \in Verdicts : Evaluate(e, verdict))

\* C24: an evaluator error for a candidate starts no run of it and does
\* not end the dispatch: a later candidate that matches is run, and every
\* dispatch goes on until a candidate matches or all are evaluated.
C24_EvaluatorErrorIsNonMatch ==
    /\ [](\A e \in 1..Len(events) : \A r \in RunsOfEvent(e) :
             /\ events[e].verdicts[Len(events[e].verdicts)] = "match"
             /\ \A i \in 1..Len(events[e].verdicts) :
                   events[e].verdicts[i] = "error" => i < Len(events[e].verdicts))
    /\ [][\A e \in 1..Len(events) :
             (/\ Len(events'[e].verdicts) = Len(events[e].verdicts) + 1
              /\ events'[e].verdicts[Len(events'[e].verdicts)] = "match") =>
                 /\ Len(runs') = Len(runs) + 1
                 /\ runs'[Len(runs')].origin.event = Some(e)
                 /\ runs'[Len(runs')].ruleId =
                       events[e].candidates[Len(events'[e].verdicts)].id]_vars
    /\ \A e \in 1..MaxEvents :
          (e <= Len(events)) ~>
             (/\ e <= Len(events)
              /\ \/ Len(events[e].verdicts) = Len(events[e].candidates)
                 \/ \E i \in 1..Len(events[e].verdicts) : events[e].verdicts[i] = "match")

\* C24 witness: the evaluator failed for the priority-10 candidate of an
\* event, the priority-5 candidate matched, and its run has ended
C24_Witness ==
    \E e \in 1..Len(events) :
        /\ Len(events[e].candidates) = 2
        /\ events[e].candidates[1].priority = 10 /\ events[e].candidates[2].priority = 5
        /\ events[e].verdicts = <<"error", "match">>
        /\ \E r \in RunsOfEvent(e) \cap FinishedRuns :
              runs[r].ruleId = events[e].candidates[2].id

\* ------------------------------------------------------------------
\* Specification of rule matching: rules of both users are created at
\* different times with priority 5 or 10, their priority is updated, and
\* the rules matching "gmail_new_email" are asked for.

DispatchUpdates ==
    {[NoInput EXCEPT !.priority = Some(p)] : p \in {5, 10}}

NextMatch ==
    \/ \E u \in Users, input \in DispatchInputs : create(u, input)
    \/ \E id \in DOMAIN rules, input \in DispatchUpdates : update(id, input)
    \/ AdvanceClock(96)
    \/ \E u \in Users : Match(u, "gmail_new_email")

SpecMatch == InitRun /\ [][NextMatch]_vars

\* the rule ids of a candidate list
Ids(result) == [i \in 1..Len(result) |-> result[i].id]

\* C6: match returns exactly the user's rules that are active, of mode
\* trigger or all, and listening to the trigger type, without repetition,
\* in descending priority, rules of equal priority most recently updated
\* first.
C6_MatchOrderedByPriorityThenRecency ==
    ret.op = "match" =>
        LET result == ret.result
        IN  /\ {result[i].id : i \in 1..Len(result)} =
                  {id \in DOMAIN rules :
                      /\ rules[id].userId = ret.userId
                      /\ rules[id].isActive
                      /\ rules[id].activationMode \in {"trigger", "all"}
                      /\ ret.triggerType \in rules[id].acceptedTriggers}
            /\ \A i, j \in 1..Len(result) : i < j =>
                  /\ result[i].id # result[j].id
                  /\ result[i].priority >= result[j].priority
                  /\ result[i].priority = result[j].priority =>
                        result[i].updatedAt >= result[j].updatedAt

\* ------------------------------------------------------------------
\* Specification of scheduling: in any time zone, scheduled rules of user
\* u1 are created with a 15-minute or a daily interval, time passes in
\* half days, and two scheduler workers tick concurrently.

SchedInputs ==
    {[NoInput EXCEPT !.name = Some("Digest"), !.executionSteps = Some(<<StepA>>),
                     !.activationMode = Some("scheduled"),
                     !.scheduleEnabled = Some(TRUE), !.scheduleInterval = Some(interval)] :
        interval \in {"15min", "daily"}}

InitSched ==
    /\ tz \in TimeZones
    /\ now = 0
    /\ LogIdle /\ RulesIdle /\ CoreIdle /\ CallsIdle /\ ArtifactsIdle
    /\ ret = NoReturn

NextSched ==
    \/ \E input \in SchedInputs : create("u1", input)
    \/ AdvanceClock(48)
    \/ \E w \in Workers : TickRead(w)
    \/ \E w \in Workers : TickRun(w)
    \/ \E r \in 1..MaxRuns, outcome \in {"output", "fail"} : ExecStep(r, outcome)
    \/ \E r \in 1..MaxRuns : FinishRun(r)

SpecSched == InitSched /\ [][NextSched]_vars

ScheduledRuns == {r \in 1..Len(runs) : runs[r].triggerSlug = "scheduled"}

\* C1: of the scheduler ticks that read the same rule as due for the same
\* due window (the same scheduleNextRun), exactly one runs it: no two runs
\* are started for one rule and one window.
C1_OneRunPerDueWindow ==
    \A r, q \in ScheduledRuns :
        (runs[r].ruleId = runs[q].ruleId /\ runs[r].origin.window = runs[q].origin.window)
            => r = q

\* C10: a rule created with scheduleEnabled and the daily interval is
\* stored with scheduleNextRun = createdAt + 24 hours (96 units).
C10_DailyRuleNextRunIsCreatedPlus24h ==
    (/\ ret.op = "create"
     /\ ret.rule.scheduleEnabled
     /\ ret.rule.scheduleInterval = Some("daily"))
        => ret.rule.scheduleNextRun = Some(ret.rule.createdAt + 96)

\* C21 (as claimed): when a scheduled run completes its claim at time now,
\* the rule's scheduleLastRun becomes now and its scheduleNextRun becomes
\* now plus the interval the tick read, whatever the previous
\* scheduleNextRun was.
C21_ClaimSetsNextRunFromNow ==
    [][\A r \in ScheduledRuns :
          (/\ runs[r].state = "running" /\ runs'[r].state = "done"
           /\ runs[r].ruleId \in DOMAIN rules) =>
              /\ rules'[runs[r].ruleId].scheduleLastRun = Some(now)
              /\ rules'[runs[r].ruleId].scheduleNextRun =
                    Some(now + LocalDelta(Val(runs[r].origin.interval)))]_vars

\* ------------------------------------------------------------------
\* Specification of rule edits around runs: a rule of user u1 is created
\* with the steps A, B, C; its steps are updated to A, B or to B, A, or it is
\* renamed, at any moment; it is invoked and its run proceeds, every step
\* giving output.

EditInputs ==
    {[NoInput EXCEPT !.name = Some("Digest"), !.activationMode = Some("manual"),
                     !.executionSteps = Some(<<StepA, StepB, StepC>>)]}

EditUpdates ==
    {[NoInput EXCEPT !.executionSteps = Some(<<StepA, StepB>>)],
     [NoInput EXCEPT !.executionSteps = Some(<<StepB, StepA>>)],
     [NoInput EXCEPT !.name = Some("Renamed")]}

NextEdit ==
    \/ \E input \in EditInputs : created < MaxInvokeRules /\ create("u1", input)
    \/ \E id \in DOMAIN rules, input \in EditUpdates : update(id, input)
    \/ \E id \in DOMAIN rules : Len(runs) < MaxInvokeRuns /\ POST(Some("u1"), Some(id))
    \/ \E r \in 1..MaxRuns : ExecStep(r, "output")
    \/ \E r \in 1..MaxRuns : FinishRun(r)

SpecEdit == InitRun /\ [][NextEdit]_vars

\* the record the executor's outcome leaves for step number k (from 1) of a
\* step list: its index, its kind and, on success with output, its output
IsRecordOf(record, steps, k) ==
    /\ record.stepIndex = k - 1
    /\ record.type = steps[k].type
    /\ record.success => record.result \in {Some(""), Some("out:" \o steps[k].content)}

C13_RunExecutesItsSnapshot ==
    [][\A r \in 1..Len(runs) :
          /\ runs'[r].steps = runs[r].steps
          /\ Len(runs'[r].stepRecords) \in
                {Len(runs[r].stepRecords), Len(runs[r].stepRecords) + 1}
          /\ \A k \in 1..Len(runs[r].stepRecords) :
                runs'[r].stepRecords[k] = runs[r].stepRecords[k]
          /\ Len(runs'[r].stepRecords) <= Len(runs[r].steps)
          /\ \A k \in (Len(runs[r].stepRecords) + 1)..Len(runs'[r].stepRecords) :
                IsRecordOf(runs'[r].stepRecords[k], runs[r].steps, k)]_vars

\* C13 witness: the steps of a rule were just updated while a run of it,
\* started with other steps, was in flight with a step executed
C13_Witness ==
    /\ ret.op = "update"
    /\ \E r \in 1..Len(runs) :
          /\ runs[r].state = "running"
          /\ Len(runs[r].stepRecords) = 1
          /\ HasNextStep(runs[r])
          /\ runs[r].ruleId \in DOMAIN rules
          /\ rules[runs[r].ruleId].executionSteps # runs[r].steps

\* ------------------------------------------------------------------
\* Specification of the execution counter: a rule is created; callers call
\* incrementExecutionCount on it, their calls overlapping in any way, while
\* time passes.

CounterInputs ==
    {[NoInput EXCEPT !.name = Some("Digest"), !.executionSteps = Some(<<StepA>>)]}

NextCounter ==
    \/ \E input \in CounterInputs : created < MaxInvokeRules /\ create("u1", input)
    \/ \E id \in DOMAIN rules : IncrementCall(id)
    \/ \E c \in 1..MaxCalls : IncrementQuery(c)
    \/ AdvanceClock(48)

SpecCounter == InitRun /\ [][NextCounter]_vars

\* the calls on rule id whose UPDATE has been executed
DoneCalls(id) == {c \in 1..Len(calls) : calls[c].id = id /\ calls[c].state = "done"}

\* C17: a rule starts with executionCount 0 and no lastExecutedAt; each
\* incrementExecutionCount call raises executionCount by exactly one and
\* sets lastExecutedAt to the time of the call; after k calls, overlapping
\* or not, executionCount is k.
C17_IncrementCountsEveryCall ==
    /\ [][\A c \in 1..Len(calls) :
             IncrementQuery(c) =>
                /\ rules'[calls[c].id].executionCount = rules[calls[c].id].executionCount + 1
                /\ rules'[calls[c].id].lastExecutedAt = Some(now)
                /\ \A id \in DOMAIN rules \ {calls[c].id} : rules'[id] = rules[id]]_vars
    /\ [](\A id \in DOMAIN rules :
             /\ rules[id].executionCount = Cardinality(DoneCalls(id))
             /\ rules[id].lastExecutedAt = NULL <=> DoneCalls(id) = {})

\* C17 witness: two calls on one rule overlapped (the second was made
\* while the first was waiting), both are done, and the count is 2
C17_Witness ==
    \E id \in DOMAIN rules :
        /\ Len(calls) = 2
        /\ calls[2].overlap = 1
        /\ DoneCalls(id) = {1, 2}
        /\ rules[id].executionCount = 2

\* ------------------------------------------------------------------
\* Specification of rule edits: a rule is created plain, scheduled every 15
\* minutes, or with scheduleEnabled and no interval; it is updated with no
\* field, with a name and a priority, with scheduleEnabled, with an interval,
\* or with an interval while disabling the schedule; its execution counter
\* is raised.

RuleEditInputs ==
    {[NoInput EXCEPT !.name = Some("Digest"), !.executionSteps = Some(<<StepA>>)],
     [NoInput EXCEPT !.name = Some("Digest"), !.executionSteps = Some(<<StepA>>),
                     !.activationMode = Some("scheduled"), !.scheduleEnabled = Some(TRUE),
                     !.scheduleInterval = Some("15min")],
     [NoInput EXCEPT !.name = Some("Digest"), !.executionSteps = Some(<<StepA>>),
                     !.activationMode = Some("scheduled"), !.scheduleEnabled = Some(TRUE)]}

RuleEditUpdates ==
    {NoInput,
     [NoInput EXCEPT !.name = Some("Updated Rule"), !.priority = Some(10)],
     [NoInput EXCEPT !.scheduleEnabled = Some(TRUE)],
     [NoInput EXCEPT !.scheduleInterval = Some("daily")],
     [NoInput EXCEPT !.scheduleEnabled = Some(FALSE), !.scheduleInterval = Some("daily")]}

NextRuleEdit ==
    \/ \E input \in RuleEditInputs : created < MaxInvokeRules /\ create("u1", input)
    \/ \E id \in DOMAIN rules, input \in RuleEditUpdates : update(id, input)
    \/ \E id \in DOMAIN rules : Len(calls) < MaxInvokeRuns /\ IncrementCall(id)
    \/ \E c \in 1..MaxCalls : IncrementQuery(c)

SpecRuleEdit == InitRun /\ [][NextRuleEdit]_vars

\* C12: every rule with scheduleEnabled has a scheduleNextRun, however it
\* was created and updated.
C12_EnabledRuleHasNextRun ==
    \A id \in DOMAIN rules : rules[id].scheduleEnabled => rules[id].scheduleNextRun # NULL

\* the stored value of field f that an input carrying f asks for
AskedValue(input, f) == IF f = "scheduleInterval" THEN input[f] ELSE Val(input[f])

LifeInputs ==
    {[NoInput EXCEPT !.name = Some("Digest"), !.executionSteps = Some(<<StepA>>),
                     !.activationMode = Some("all"),
                     !.acceptedTriggers = Some({"gmail_new_email"}),
                     !.scheduleEnabled = Some(TRUE), !.scheduleInterval = Some("15min")]}

LifeUpdates == {[NoInput EXCEPT !.name = Some("Renamed")]}

CreatedIds == {RuleIdOf[i] : i \in 1..created}

NextLife ==
    \/ \E input \in LifeInputs : created < MaxInvokeRules /\ create("u1", input)
    \/ \E id \in DOMAIN rules, input \in LifeUpdates : update(id, input)
    \/ \E id \in DOMAIN rules : delete(id)
    \/ AdvanceClock(48)
    \/ TickRead("w1")
    \/ TickRun("w1")
    \/ Trigger("u1", "gmail_new_email")
    \/ \E e \in 1..MaxEvents, verdict \in {"match", "nomatch"} : Evaluate(e, verdict)
    \/ \E id \in CreatedIds : POST(Some("u1"), Some(id))
    \/ \E r \in 1..MaxRuns : ExecStep(r, "output")
    \/ \E r \in 1..MaxRuns : FinishRun(r)
    \/ \E id \in CreatedIds : GETRuleLogs(Some("u1"), id)

SpecLife == InitRun /\ [][NextLife]_vars

\* the log entries of rule id that belong to user u
EntriesOf(id, u) == {i \in 1..Len(log) : log[i].ruleId = id /\ log[i].userId = u}

\* C14: renaming or deleting a rule leaves the log as it is; every entry
\* carries the id and the name its rule had when the run started; and the
\* owner who asks for the log of a rule gets all its entries, also after
\* the rule is deleted.
C14_HistorySurvivesRuleChanges ==
    /\ [][\A id \in DOMAIN rules :
             (delete(id) \/ \E input \in LifeUpdates : update(id, input)) => log' = log]_vars
    /\ [](\A r \in FinishedRuns :
             /\ log[Val(runs[r].logId)].ruleId = runs[r].ruleId
             /\ log[Val(runs[r].logId)].ruleName = runs[r].ruleName)
    /\ []((/\ ret.op = "GET /api/automations/[id]/logs"
            /\ EntriesOf(ret.id, Val(ret.session)) # {})
              => /\ ret.status = 200
                 /\ {ret.logs[k].id : k \in 1..Len(ret.logs)} =
                       {log[i].id : i \in EntriesOf(ret.id, Val(ret.session))})

\* C19: a run starts only for a rule that exists: once a rule is deleted
\* no run of it starts, whether from a manual request, from a trigger event
\* or from a scheduler tick that read the rule before the deletion.
C19_NoRunOfDeletedRule ==
    [][\A r \in (Len(runs) + 1)..Len(runs') : runs'[r].ruleId \in DOMAIN rules]_vars

\* ------------------------------------------------------------------
\* Specification of the three paths to a run: a rule of user u1 open to
\* every path (trigger, schedule every 15 minutes, manual) is created; time
\* passes; a scheduler tick, trigger events and manual requests start runs
\* of it, which proceed and finish in any interleaving.

NextPaths ==
    \/ \E input \in LifeInputs : created = 0 /\ create("u1", input)
    \/ AdvanceClock(48)
    \/ TickRead("w1")
    \/ TickRun("w1")
    \/ Trigger("u1", "gmail_new_email")
    \/ \E e \in 1..MaxEvents, verdict \in {"match", "nomatch"} : Evaluate(e, verdict)
    \/ \E id \in DOMAIN rules : POST(Some("u1"), Some(id))
    \/ \E r \in 1..MaxRuns : ExecStep(r, "output")
    \/ \E r \in 1..MaxRuns : FinishRun(r)

SpecPaths == InitRun /\ [][NextPaths]_vars

\* the finished runs of rule id
FinishedRunsOf(id) == {r \in FinishedRuns : runs[r].ruleId = id}

EntryInputs ==
    {[workflowName |-> Some("Daily Email Digest"), content |-> "Feb 21", source |-> NULL],
     [workflowName |-> NULL, content |-> "Feb 22", source |-> Some("manual")]}

ArtifactInputs ==
    {[userId |-> "u1", title |-> "Email Digests", summary |-> NULL, firstEntry |-> first] :
        first \in {NULL} \cup {Some(e) : e \in {e \in EntryInputs : e.source = NULL}}}

InitArtifacts ==
    /\ tz \in {z \in TimeZones : z.name = "UTC"}
    /\ now = 0
    /\ LogIdle /\ RulesIdle /\ CoreIdle /\ CallsIdle /\ ArtifactsIdle
    /\ ret = NoReturn

NextArtifacts ==
    \/ \E params \in ArtifactInputs : artifactService_create(params)
    \/ \E id \in 1..MaxArtifacts, params \in EntryInputs : addEntry(id, params)
    \/ \E entryId \in 1..MaxEntries : deleteEntry(entryId)
    \/ \E id \in 1..MaxArtifacts : artifactService_delete(id)
    \/ \E id \in 1..MaxArtifacts : getWithEntries(id)
    \/ AdvanceClock(96)

SpecArtifacts == InitArtifacts /\ [][NextArtifacts]_vars

\* the stored entries of an artifact, in the order they were added
EntriesAsAdded(id) == SelectSeq(entries, LAMBDA e : e.artifactId = id)

\* C18 (as claimed): an artifact retrieved with its entries comes with the
\* entries added to it and not deleted, in the order they were added, the
\* first-added at index 0.
C18_EntriesInOrderAdded ==
    (ret.op = "artifactService.getWithEntries" /\ ret.result # NULL) =>
        Val(ret.result).entries = EntriesAsAdded(ret.id)

\* ------------------------------------------------------------------
\* Specification of runs against their deadline: rules of user u1 that
\* allow manual invocation are created with step lists of every length up
\* to three and invoked; their runs proceed step by step with any executor
\* outcome, and the deadline of a run may pass at any moment before it ends.

NextDeadline ==
    \/ \E input \in RunInputs : created < MaxInvokeRules /\ create("u1", input)
    \/ \E id \in DOMAIN rules : Len(runs) < MaxInvokeRuns /\ POST(Some("u1"), Some(id))
    \/ \E r \in 1..MaxRuns, outcome \in StepOutcomes : ExecStep(r, outcome)
    \/ \E r \in 1..MaxRuns : Expire(r)
    \/ \E r \in 1..MaxRuns : FinishRun(r)

SpecDeadline == InitRun /\ [][NextDeadline]_vars

\* C25: once the deadline of a run has passed no further step is handed
\* to the executor and its step records stay as they were at expiry; the
\* run ends with status failure and the error "timeout", and its result
\* and log entry carry the step records of the expiry.
C25_ExpiredRunEndsAsTimeout ==
    /\ [][\A r \in 1..Len(runs) :
             runs[r].expired =>
                /\ runs'[r].expired
                /\ runs'[r].stepRecords = runs[r].stepRecords]_vars
    /\ [](\A r \in FinishedRuns :
             runs[r].expired =>
                /\ runs[r].status = Some("failure")
                /\ log[Val(runs[r].logId)].status = "failure"
                /\ log[Val(runs[r].logId)].errorText = Some("timeout")
                /\ log[Val(runs[r].logId)].stepsJson = runs[r].stepRecords)

\* C25 witness: a run of a 3-step rule ended after its deadline passed
\* when one step had succeeded with output: status failure, one record
C25_Witness ==
    \E r \in FinishedRuns :
        /\ runs[r].expired
        /\ Len(runs[r].steps) = 3
        /\ Len(runs[r].stepRecords) = 1
        /\ ProducedOutput(runs[r].stepRecords[1])
        /\ runs[r].status = Some("failure")

\* ------------------------------------------------------------------
\* Specification of runs under a storage outage: a rule of user u1 open to
\* every path (trigger, schedule every 15 minutes, manual) is created; time
\* passes; one scheduler worker ticks, trigger events arrive and manual
\* requests are made; each run ends with its log entry and counters
\* recorded, or with the store failing while the log entry is written.

NextOutage ==
    \/ \E input \in LifeInputs : created = 0 /\ create("u1", input)
    \/ AdvanceClock(96)
    \/ TickRead("w1")
    \/ TickRun("w1")
    \/ Trigger("u1", "gmail_new_email")
    \/ \E e \in 1..MaxEvents : Evaluate(e, "match")
    \/ \E id \in CreatedIds : POST(Some("u1"), Some(id))
    \/ \E r \in 1..MaxRuns : ExecStep(r, "output")
    \/ \E r \in 1..MaxRuns : FinishRun(r)
    \/ \E r \in 1..MaxRuns, point \in LogFailurePoints : LogWriteFails(r, point)

SpecOutage == InitRun /\ [][NextOutage]_vars

LogEntriesOf(id) == {k \in 1..Len(log) : log[k].ruleId = id}

FailedWrites == {r \in 1..Len(runs) : runs[r].state = "storage_error"}

DueIds ==
    {id \in DOMAIN rules :
        /\ rules[id].scheduleEnabled /\ rules[id].isActive
        /\ rules[id].activationMode \in {"scheduled", "all"}
        /\ rules[id].scheduleNextRun # NULL
        /\ Val(rules[id].scheduleNextRun) <= now}

DueInputs ==
    {[NoInput EXCEPT !.name = Some("Digest"), !.executionSteps = Some(<<StepA>>),
                     !.isActive = k[1], !.activationMode = k[2],
                     !.scheduleEnabled = k[3], !.scheduleInterval = Some("15min")] :
        k \in {<<NULL, Some("all"), Some(TRUE)>>,
               <<Some(FALSE), Some("scheduled"), Some(TRUE)>>,
               <<NULL, Some("scheduled"), NULL>>,
               <<NULL, NULL, Some(TRUE)>>,
               <<NULL, Some("manual"), Some(TRUE)>>}}

DueUpdates ==
    {[NoInput EXCEPT !.isActive = Some(FALSE)],
     [NoInput EXCEPT !.activationMode = Some("manual")]}

NextDue ==
    \/ \E input \in DueInputs : create("u1", input)
    \/ \E id \in DOMAIN rules, input \in DueUpdates : update(id, input)
    \/ AdvanceClock(96)
    \/ TickRead("w1")
    \/ TickRun("w1")
    \/ \E r \in 1..MaxRuns : ExecStep(r, "output")
    \/ \E r \in 1..MaxRuns : FinishRun(r)

SpecDue == InitRun /\ [][NextDue]_vars

\* whether a rule row is one the scheduler may run at the present time
IsDueRow(rule) ==
    /\ rule.scheduleEnabled /\ rule.isActive
    /\ rule.activationMode \in {"scheduled", "all"}
    /\ rule.scheduleNextRun # NULL
    /\ Val(rule.scheduleNextRun) <= now

ReschedInputs ==
    {[NoInput EXCEPT !.name = Some("Digest"), !.executionSteps = Some(<<StepA>>),
                     !.activationMode = Some("scheduled"),
                     !.scheduleEnabled = k[1], !.scheduleInterval = Some(k[2])] :
        k \in {<<Some(TRUE), "daily">>, <<NULL, "15min">>}}

ReschedUpdates ==
    {[NoInput EXCEPT !.scheduleInterval = Some("15min")],
     [NoInput EXCEPT !.scheduleInterval = Some("daily")],
     [NoInput EXCEPT !.scheduleEnabled = Some(TRUE)],
     [NoInput EXCEPT !.scheduleEnabled = Some(FALSE)]}

NextResched ==
    \/ \E input \in ReschedInputs : created = 0 /\ create("u1", input)
    \/ \E id \in DOMAIN rules, input \in ReschedUpdates : update(id, input)
    \/ AdvanceClock(24)
    \/ TickRead("w1")
    \/ TickRun("w1")
    \/ \E r \in 1..MaxRuns : ExecStep(r, "output")
    \/ \E r \in 1..MaxRuns : FinishRun(r)

SpecResched == InitRun /\ [][NextResched]_vars

\* time keeps advancing
FairSpecResched == SpecResched /\ WF_vars(AdvanceClock(24))

\* the scheduleNextRun set by the last claim of rule id: the claim was made
\* at the rule's scheduleLastRun by the scheduled run that ended then, with
\* the interval its tick had read
LastClaimValues(id) ==
    {log[Val(runs[r].logId)].createdAt + LocalDelta(Val(runs[r].origin.interval)) :
        r \in {q \in ScheduledRuns \cap FinishedRuns :
                  /\ runs[q].ruleId = id
                  /\ Some(log[Val(runs[q].logId)].createdAt) = rules[id].scheduleLastRun}}

\* C27 (as claimed): the scheduleNextRun of a schedule-enabled rule is
\* never earlier than the value its last claim set, and an update of
\* scheduleInterval never moves it backwards.
C27_NextRunNeverMovesBack ==
    /\ [](\A id \in DOMAIN rules :
             (rules[id].scheduleEnabled /\ rules[id].scheduleNextRun # NULL) =>
                \A v \in LastClaimValues(id) : Val(rules[id].scheduleNextRun) >= v)
    /\ [][\A id \in DOMAIN rules : \A input \in ReschedUpdates :
             (/\ update(id, input)
              /\ rules[id].scheduleEnabled /\ rules'[id].scheduleEnabled
              /\ rules[id].scheduleNextRun # NULL) =>
                 /\ rules'[id].scheduleNextRun # NULL
                 /\ Val(rules'[id].scheduleNextRun) >= Val(rules[id].scheduleNextRun)]_vars

\* whether the scheduler is meant to run rule id
IsScheduled(id) ==
    /\ id \in DOMAIN rules
    /\ rules[id].isActive /\ rules[id].scheduleEnabled
    /\ rules[id].activationMode \in {"scheduled", "all"}

\* C30 (as claimed): as time keeps advancing, a rule that is active,
\* schedule-enabled and of activation mode scheduled or all becomes due
\* (or stops being such a rule), unless its scheduleNextRun lies after the
\* last instant of the time window.
C30_ScheduledRuleBecomesDue ==
    \A id \in RuleIds :
        IsScheduled(id) ~>
            (\/ ~IsScheduled(id)
             \/ id \in DueIds
             \/ rules[id].scheduleNextRun # NULL /\ Val(rules[id].scheduleNextRun) > MaxTime)

\* ------------------------------------------------------------------
\* Specification of entry edits: users u1 and u2 each create artifacts
\* with a first entry, and anyone, signed in or not, sends PATCH requests
\* naming any artifact and any entry.

PatchArtifactInputs ==
    {[userId |-> u, title |-> "Email Digests", summary |-> NULL,
      firstEntry |-> Some([workflowName |-> NULL, content |-> "Feb 21", source |-> NULL])] :
        u \in Users}

PatchContents == {NULL, Some(""), Some("  "), Some("edited"), Some(" edited ")}

NextEntryPatch ==
    \/ \E params \in PatchArtifactInputs : artifactService_create(params)
    \/ \E session \in {NULL} \cup {Some(u) : u \in Users},
          id \in 1..MaxArtifacts, entryId \in 1..MaxEntries, content \in PatchContents :
             PATCHEntry(session, id, entryId, content)

SpecEntryPatch == InitArtifacts /\ [][NextEntryPatch]_vars

\* C28 (as claimed): a PATCH request changes the content of an entry only
\* when it comes from the user who owns the artifact the entry belongs to,
\* whatever artifact id the request names.
C28_OnlyOwnerChangesEntry ==
    [][\A k \in 1..Len(entries) :
          (/\ ret'.op = "PATCH /api/artifacts/[id]/entries/[entryId]"
           /\ k <= Len(entries')
           /\ entries'[k].content # entries[k].content) =>
              ret'.session = Some(artifacts[entries[k].artifactId].userId)]_vars

====
